---- MODULE Spec2Model ----
(***************************************************************************)
(* Model of polaris' src/config.rs: the Config document, and read, reset,  *)
(* overwrite and ammend against the four tables of the database            *)
(* (misc_settings, mount_points, users, ddns_config), whose connection is  *)
(* shared behind one mutex.  Every statement executed on the connection is *)
(* one step that either succeeds or returns an error through `?`.          *)
(***************************************************************************)
EXTENDS Integers, Sequences, FiniteSets, TLC

\* ------------------------------------------------------------------ bounds
MaxMounts == 1
MaxUsers == 1
MaxPathLen == 3

\* ------------------------------------------------------------- data model
\* Option<T>: None is the empty sequence, Some(x) the one-element sequence.
None == << >>
Some(x) == << x >>
IsSome(o) == o # None
Unwrap(o) == o[1]
Opt(S) == {None} \cup {Some(x) : x \in S}

SeqUpTo(S, n) == UNION {[1..m -> S] : m \in 0..n}

\* vfs::MountPoint { source, name }
MountVals == { [source |-> "/home/music", name |-> "root"] }

\* ConfigUser { name, password }
UserVals ==
    { [name |-> "Teddy", password |-> ""],
      [name |-> "Kermit", password |-> "frog"] }

SleepVals == {7734}
PatternVals == {"file.png"}

\* ddns::DDNSConfig { host, username, password }
DdnsVals == { [host |-> "x.ydns.eu", username |-> "u", password |-> "p"] }

\* Config: five independently optional fields.
Documents ==
    [ album_art_pattern : Opt(PatternVals),
      reindex_every_n_seconds : Opt(SleepVals),
      mount_dirs : Opt(SeqUpTo(MountVals, MaxMounts)),
      users : Opt(SeqUpTo(UserVals, MaxUsers)),
      ydns : Opt(DdnsVals) ]

\* The Config literal read starts from: every field None.
EmptyConfig ==
    [ album_art_pattern |-> None,
      reindex_every_n_seconds |-> None,
      mount_dirs |-> None,
      users |-> None,
      ydns |-> None ]

\* The rows the store is created with (one misc_settings row, one
\* ddns_config row, no mount points, no users).
InitialMisc ==
    [ auth_secret |-> "secret",
      index_sleep_duration_seconds |-> 1800,
      index_album_art_pattern |-> "Folder.(jpg|png)" ]

InitialDdns == [host |-> "", username |-> "", password |-> ""]

\* user::User::new(name, password): the stored row carries a hash of the
\* password, never the password.
Hash(p) == "hash(" \o p \o ")"
NewUser(name, password) == [name |-> name, password_hash |-> Hash(password)]

\* The threads that may call into the module.
Callers == {1, 2}

\* ------------------------------------------------------------------ state
VARIABLES
    mount_points,   \* table mount_points: rows (source, name), rowid order
    users,          \* table users: rows (name, password_hash), rowid order
    misc_settings,  \* table misc_settings
    ddns_config,    \* table ddns_config
    lock,           \* holder of the connection mutex, 0 when free
    pc,             \* per caller: the statement it is about to execute
    op,             \* per caller: the function it called last
    new_config,     \* per caller: the document passed to ammend/overwrite
    config,         \* per caller: read's local `config` under construction
    idx,            \* per caller: config_users already inserted by the loop
    result,         \* per caller: what the last call returned
    pre,            \* per caller: the tables when the call was made
    prev_ammend     \* per caller: the document of the ammend that returned
                    \* Ok just before, when it set all five fields

vars ==
    << mount_points, users, misc_settings, ddns_config, lock, pc, op,
       new_config, config, idx, result, pre, prev_ammend >>

store == << mount_points, users, misc_settings, ddns_config >>
locals == << new_config, config, idx, pre, prev_ammend, op >>

Tables ==
    [ mount_points |-> mount_points,
      users |-> users,
      misc_settings |-> misc_settings,
      ddns_config |-> ddns_config ]

EmptyTables ==
    [ mount_points |-> << >>, users |-> << >>,
      misc_settings |-> << >>, ddns_config |-> << >> ]

Pending == [status |-> "pending", at |-> "", value |-> None]
Ok(v) == [status |-> "ok", at |-> "", value |-> v]
Err(at) == [status |-> "err", at |-> at, value |-> None]

\* The store as created, and the callers cs idle.
InitFor(cs) ==
    /\ mount_points = << >>
    /\ users = << >>
    /\ misc_settings = << InitialMisc >>
    /\ ddns_config = << InitialDdns >>
    /\ lock = 0
    /\ pc = [c \in cs |-> "idle"]
    /\ op = [c \in cs |-> "none"]
    /\ new_config = [c \in cs |-> EmptyConfig]
    /\ config = [c \in cs |-> EmptyConfig]
    /\ idx = [c \in cs |-> 0]
    /\ result = [c \in cs |-> Pending]
    /\ pre = [c \in cs |-> EmptyTables]
    /\ prev_ammend = [c \in cs |-> None]

\* The callers of the behaviour at hand.
Active == DOMAIN pc

\* ------------------------------------------------------- calls and return
\* Variant: the users block placed before the mount-point block.
AmmendOrder_UsersFirst ==
    << "users", "mount_dirs", "reindex_every_n_seconds", "album_art_pattern", "ydns" >>

\* The order of ammend's `if let Some` blocks.
AmmendOrder == << "mount_dirs", "users", "reindex_every_n_seconds",
                  "album_art_pattern", "ydns" >>

Field(D, f) ==
    CASE f = "mount_dirs" -> D.mount_dirs
      [] f = "users" -> D.users
      [] f = "reindex_every_n_seconds" -> D.reindex_every_n_seconds
      [] f = "album_art_pattern" -> D.album_art_pattern
      [] f = "ydns" -> D.ydns

Goto(c, label) == pc' = [pc EXCEPT ![c] = label]

\* A function returns: its MutexGuard is dropped with its locals, and the
\* caller has the result.
Return(c, r) ==
    /\ result' = [result EXCEPT ![c] = r]
    /\ lock' = 0
    /\ Goto(c, "returned")
    /\ config' = [config EXCEPT ![c] = EmptyConfig]
    /\ idx' = [idx EXCEPT ![c] = 0]

IsFull(D) == \A j \in 1..Len(AmmendOrder) : IsSome(Field(D, AmmendOrder[j]))

\* The caller is done with the result and may call again.
Done(c) ==
    /\ pc[c] = "returned"
    /\ Goto(c, "idle")
    /\ op' = [op EXCEPT ![c] = "none"]
    /\ new_config' = [new_config EXCEPT ![c] = EmptyConfig]
    /\ result' = [result EXCEPT ![c] = Pending]
    /\ pre' = [pre EXCEPT ![c] = EmptyTables]
    /\ prev_ammend' =
          [prev_ammend EXCEPT ![c] =
              IF op[c] = "ammend" /\ result[c].status = "ok" /\ IsFull(new_config[c])
              THEN Some(new_config[c]) ELSE None]
    /\ UNCHANGED << store, lock, config, idx >>

Call(c, f, D, label, snapshot) ==
    /\ op' = [op EXCEPT ![c] = f]
    /\ new_config' = [new_config EXCEPT ![c] = D]
    /\ pre' = [pre EXCEPT ![c] = snapshot]
    /\ prev_ammend' =
          [prev_ammend EXCEPT ![c] = IF f = "read" THEN prev_ammend[c] ELSE None]
    /\ Goto(c, label)
    /\ UNCHANGED << store, lock, config, idx, result >>

\* `snapshot` is what the history variable pre records for the call: the
\* tables, where a lone caller makes "the state before the call" well defined.
CallRead(c, snapshot) ==
    /\ pc[c] = "idle"
    /\ Call(c, "read", EmptyConfig, "read_lock", snapshot)

CallAmmend(c, Docs, snapshot) ==
    /\ pc[c] = "idle"
    /\ \E D \in Docs : Call(c, "ammend", D, "ammend_lock", snapshot)

CallOverwrite(c, Docs, snapshot) ==
    /\ pc[c] = "idle"
    /\ \E D \in Docs : Call(c, "overwrite", D, "reset_lock", snapshot)

\* connection.lock(): blocks until the mutex is free.
Acquire(c) ==
    /\ lock = 0
    /\ lock' = c

\* ------------------------------------------------------------------- read
\* Variant: a failing read hands back the fields filled so far.
ReadErrValue_Partial(cfg) == Some(cfg)

\* What a failing `?` of read hands back: the error, and no Config.
ReadErrValue(cfg) == None

\* Variant: the error path of read returns with the mutex still held.
ReadFail_KeepsLock(c, at) ==
    /\ result' = [result EXCEPT ![c] =
                     [status |-> "err", at |-> at, value |-> ReadErrValue(config[c])]]
    /\ Goto(c, "returned")
    /\ config' = [config EXCEPT ![c] = EmptyConfig]
    /\ UNCHANGED << store, lock, op, new_config, idx, pre, prev_ammend >>

ReadFail(c, at) ==
    /\ result' = [result EXCEPT ![c] =
                     [status |-> "err", at |-> at, value |-> ReadErrValue(config[c])]]
    /\ lock' = 0
    /\ Goto(c, "returned")
    /\ config' = [config EXCEPT ![c] = EmptyConfig]
    /\ UNCHANGED << store, op, new_config, idx, pre, prev_ammend >>

ReadLock(c) ==
    /\ pc[c] = "read_lock"
    /\ Acquire(c)
    /\ config' = [config EXCEPT ![c] = EmptyConfig]
    /\ Goto(c, "read_misc")
    /\ UNCHANGED << store, op, new_config, idx, result, pre, prev_ammend >>

\* get_result: the first row, or an error when there is none.
ReadMisc(c) ==
    /\ pc[c] = "read_misc"
    /\ \/ /\ Len(misc_settings) > 0
          /\ config' = [config EXCEPT
                 ![c].album_art_pattern =
                     Some(misc_settings[1].index_album_art_pattern),
                 ![c].reindex_every_n_seconds =
                     Some(misc_settings[1].index_sleep_duration_seconds)]
          /\ Goto(c, "read_mounts")
          /\ UNCHANGED << store, lock, op, new_config, idx, result, pre, prev_ammend >>
       \/ ReadFail(c, "misc_settings")

\* Variant: loading the mount points consumes the rows.
ReadMounts_Drains(c) ==
    /\ pc[c] = "read_mounts"
    /\ \/ /\ config' = [config EXCEPT ![c].mount_dirs = Some(mount_points)]
          /\ mount_points' = << >>
          /\ Goto(c, "read_users")
          /\ UNCHANGED << users, misc_settings, ddns_config, lock, op,
                          new_config, idx, result, pre, prev_ammend >>
       \/ ReadFail(c, "mount_points")

\* Variant: read takes the lock per query and lets go of it after loading the
\* mount points.
ReadMounts_Unlocks(c) ==
    /\ pc[c] = "read_mounts"
    /\ \/ /\ config' = [config EXCEPT ![c].mount_dirs = Some(mount_points)]
          /\ lock' = 0
          /\ Goto(c, "read_users")
          /\ UNCHANGED << store, op, new_config, idx, result, pre, prev_ammend >>
       \/ ReadFail(c, "mount_points")

ReadMounts(c) ==
    /\ pc[c] = "read_mounts"
    /\ \/ /\ config' = [config EXCEPT ![c].mount_dirs = Some(mount_points)]
          /\ Goto(c, "read_users")
          /\ UNCHANGED << store, lock, op, new_config, idx, result, pre, prev_ammend >>
       \/ ReadFail(c, "mount_points")

\* Variant: the export copies the stored credential into the password.
ExportUser_Leaks(row) == [name |-> row.name, password |-> row.password_hash]

\* The map over the selected names: ConfigUser { name: s, password: "" }.
ExportUser(row) == [name |-> row.name, password |-> ""]

ReadUsers(c) ==
    /\ pc[c] = "read_users"
    /\ \/ /\ config' = [config EXCEPT ![c].users =
                 Some([i \in 1..Len(users) |-> ExportUser(users[i])])]
          /\ Goto(c, "read_ddns")
          /\ UNCHANGED << store, lock, op, new_config, idx, result, pre, prev_ammend >>
       \/ ReadFail(c, "users")

ReadDdns(c) ==
    /\ pc[c] = "read_ddns"
    /\ \/ /\ Len(ddns_config) > 0
          /\ Return(c, Ok(Some([config[c] EXCEPT !.ydns = Some(ddns_config[1])])))
          /\ UNCHANGED << store, op, new_config, pre, prev_ammend >>
       \/ ReadFail(c, "ddns_config")

\* ------------------------------------------------------ reset / overwrite
Fail(c, at) ==
    /\ Return(c, Err(at))
    /\ UNCHANGED << store, op, new_config, pre, prev_ammend >>

ResetLock(c) ==
    /\ pc[c] = "reset_lock"
    /\ Acquire(c)
    /\ Goto(c, "reset_mounts")
    /\ UNCHANGED << store, locals, result >>

\* Variant: reset's first delete leaves the rows.
ResetMounts_Keeps(c) ==
    /\ pc[c] = "reset_mounts"
    /\ \/ /\ Goto(c, "reset_users")
          /\ UNCHANGED << store, lock, locals, result >>
       \/ Fail(c, "reset_mounts")

\* Variant: reset's first delete also puts the DDNS row back to its default.
ResetMounts_ResetsDdns(c) ==
    /\ pc[c] = "reset_mounts"
    /\ \/ /\ mount_points' = << >>
          /\ ddns_config' = << InitialDdns >>
          /\ Goto(c, "reset_users")
          /\ UNCHANGED << users, misc_settings, lock, locals, result >>
       \/ Fail(c, "reset_mounts")

ResetMounts(c) ==
    /\ pc[c] = "reset_mounts"
    /\ \/ /\ mount_points' = << >>
          /\ Goto(c, "reset_users")
          /\ UNCHANGED << users, misc_settings, ddns_config, lock, locals, result >>
       \/ Fail(c, "reset_mounts")

\* Variant: reset also puts the single-row settings back to their defaults.
ResetUsers_ResetsSettings(c) ==
    /\ pc[c] = "reset_users"
    /\ \/ /\ users' = << >>
          /\ misc_settings' = << InitialMisc >>
          /\ ddns_config' = << InitialDdns >>
          /\ lock' = 0
          /\ Goto(c, "ammend_lock")
          /\ UNCHANGED << mount_points, locals, result >>
       \/ Fail(c, "reset_users")

\* Variant: overwrite ignores the error of reset and goes on to ammend.
ResetUsers_IgnoresError(c) ==
    /\ pc[c] = "reset_users"
    /\ \/ /\ users' = << >>
          /\ lock' = 0
          /\ Goto(c, "ammend_lock")
          /\ UNCHANGED << mount_points, misc_settings, ddns_config, locals, result >>
       \/ /\ lock' = 0
          /\ Goto(c, "ammend_lock")
          /\ UNCHANGED << store, locals, result >>

\* Variant: reset's guard outlives reset, so overwrite still holds the mutex
\* when ammend goes to lock it.
ResetUsers_KeepsLock(c) ==
    /\ pc[c] = "reset_users"
    /\ \/ /\ users' = << >>
          /\ Goto(c, "ammend_lock")
          /\ UNCHANGED << mount_points, misc_settings, ddns_config, lock, locals, result >>
       \/ Fail(c, "reset_users")

\* reset returns Ok(()) after the second delete, dropping its guard;
\* overwrite goes on to call ammend, which locks again.
ResetUsers(c) ==
    /\ pc[c] = "reset_users"
    /\ \/ /\ users' = << >>
          /\ lock' = 0
          /\ Goto(c, "ammend_lock")
          /\ UNCHANGED << mount_points, misc_settings, ddns_config, locals, result >>
       \/ Fail(c, "reset_users")

\* ----------------------------------------------------------------- ammend
\* The first block from position k on whose field is Some; "return" after
\* the last.
BlockFrom(D, k) ==
    LET later == {j \in k..Len(AmmendOrder) : IsSome(Field(D, AmmendOrder[j]))}
    IN  IF later = {} THEN "return"
        ELSE AmmendOrder[CHOOSE j \in later : \A i \in later : j <= i]

PosOf(f) == CHOOSE j \in 1..Len(AmmendOrder) : AmmendOrder[j] = f

\* The block that runs once the block of field f is over.
BlockAfter(D, f) == BlockFrom(D, PosOf(f) + 1)

\* Variant: ammend empties both lists as soon as it holds the lock.
AmmendLock_Resets(c) ==
    /\ pc[c] = "ammend_lock"
    /\ Acquire(c)
    /\ mount_points' = << >>
    /\ users' = << >>
    /\ Goto(c, BlockFrom(new_config[c], 1))
    /\ UNCHANGED << misc_settings, ddns_config, locals, result >>

AmmendLock(c) ==
    /\ pc[c] = "ammend_lock"
    /\ Acquire(c)
    /\ Goto(c, BlockFrom(new_config[c], 1))
    /\ UNCHANGED << store, locals, result >>

\* Variant: the mount points are inserted without the delete (a merge).
AmmendDeleteMounts_Keeps(c) ==
    /\ pc[c] = "mount_dirs"
    /\ \/ /\ Goto(c, "insert_mounts")
          /\ UNCHANGED << store, lock, locals, result >>
       \/ Fail(c, "mount_dirs")

\* diesel::delete(mount_points::table)
AmmendDeleteMounts(c) ==
    /\ pc[c] = "mount_dirs"
    /\ \/ /\ mount_points' = << >>
          /\ Goto(c, "insert_mounts")
          /\ UNCHANGED << users, misc_settings, ddns_config, lock, locals, result >>
       \/ Fail(c, "mount_dirs")

\* Variant: the lock is given up once the mount points are replaced, as if
\* each block took the lock for itself.
AmmendInsertMounts_Unlocks(c) ==
    LET rows == Unwrap(new_config[c].mount_dirs) IN
    /\ pc[c] = "insert_mounts"
    /\ \/ /\ mount_points' = mount_points \o rows
          /\ lock' = 0
          /\ Goto(c, BlockAfter(new_config[c], "mount_dirs"))
          /\ UNCHANGED << users, misc_settings, ddns_config, locals, result >>
       \/ /\ \E n \in 0..(IF rows = << >> THEN 0 ELSE Len(rows) - 1) :
                mount_points' = mount_points \o SubSeq(rows, 1, n)
          /\ Return(c, Err("mount_dirs"))
          /\ UNCHANGED << users, misc_settings, ddns_config, op, new_config,
                          pre, prev_ammend >>

\* diesel::insert(mount_dirs): one call for the whole vector.  Whether a
\* failing batch leaves the rows inserted before the failure depends on the
\* backend, so a failure may leave any proper prefix.
AmmendInsertMounts(c) ==
    LET rows == Unwrap(new_config[c].mount_dirs) IN
    /\ pc[c] = "insert_mounts"
    /\ \/ /\ mount_points' = mount_points \o rows
          /\ Goto(c, BlockAfter(new_config[c], "mount_dirs"))
          /\ UNCHANGED << users, misc_settings, ddns_config, lock, locals, result >>
       \/ /\ \E n \in 0..(IF rows = << >> THEN 0 ELSE Len(rows) - 1) :
                mount_points' = mount_points \o SubSeq(rows, 1, n)
          /\ Return(c, Err("mount_dirs"))
          /\ UNCHANGED << users, misc_settings, ddns_config, op, new_config,
                          pre, prev_ammend >>

\* Variant: the users are inserted without the delete (a merge).
AmmendDeleteUsers_Keeps(c) ==
    /\ pc[c] = "users"
    /\ \/ /\ idx' = [idx EXCEPT ![c] = 0]
          /\ Goto(c, IF Unwrap(new_config[c].users) = << >>
                     THEN BlockAfter(new_config[c], "users")
                     ELSE "insert_user")
          /\ UNCHANGED << store, lock, op, new_config, config, result, pre,
                          prev_ammend >>
       \/ Fail(c, "users")

\* diesel::delete(users::table)
AmmendDeleteUsers(c) ==
    /\ pc[c] = "users"
    /\ \/ /\ users' = << >>
          /\ idx' = [idx EXCEPT ![c] = 0]
          /\ Goto(c, IF Unwrap(new_config[c].users) = << >>
                     THEN BlockAfter(new_config[c], "users")
                     ELSE "insert_user")
          /\ UNCHANGED << mount_points, misc_settings, ddns_config, lock, op,
                          new_config, config, result, pre, prev_ammend >>
       \/ Fail(c, "users")

\* One iteration of `for config_user in config_users`.
AmmendInsertUser(c) ==
    LET list == Unwrap(new_config[c].users)
        config_user == list[idx[c] + 1]
    IN
    /\ pc[c] = "insert_user"
    /\ \/ /\ users' = Append(users, NewUser(config_user.name, config_user.password))
          /\ idx' = [idx EXCEPT ![c] = idx[c] + 1]
          /\ Goto(c, IF idx[c] + 1 = Len(list)
                     THEN BlockAfter(new_config[c], "users")
                     ELSE "insert_user")
          /\ UNCHANGED << mount_points, misc_settings, ddns_config, lock, op,
                          new_config, config, result, pre, prev_ammend >>
       \/ Fail(c, "users")

\* diesel::update(table).set(column.eq(value)): every row of the table.
\* Variant: the interval is stored by replacing the table with one fresh row.
SetSleep_Reinserts(rows, v) ==
    << [ auth_secret |-> "",
         index_sleep_duration_seconds |-> v,
         index_album_art_pattern |-> "" ] >>

SetSleep(rows, v) ==
    [i \in 1..Len(rows) |-> [rows[i] EXCEPT !.index_sleep_duration_seconds = v]]

\* Variant: the pattern is written to the wrong column.
SetPattern_WrongColumn(rows, v) ==
    [i \in 1..Len(rows) |-> [rows[i] EXCEPT !.auth_secret = v]]

SetPattern(rows, v) ==
    [i \in 1..Len(rows) |-> [rows[i] EXCEPT !.index_album_art_pattern = v]]

SetDdns(rows, y) ==
    [i \in 1..Len(rows) |->
        [rows[i] EXCEPT !.host = y.host, !.username = y.username,
                        !.password = y.password]]

AmmendSleep(c) ==
    /\ pc[c] = "reindex_every_n_seconds"
    /\ \/ /\ misc_settings' =
                 SetSleep(misc_settings, Unwrap(new_config[c].reindex_every_n_seconds))
          /\ Goto(c, BlockAfter(new_config[c], "reindex_every_n_seconds"))
          /\ UNCHANGED << mount_points, users, ddns_config, lock, locals, result >>
       \/ Fail(c, "reindex_every_n_seconds")

AmmendPattern(c) ==
    /\ pc[c] = "album_art_pattern"
    /\ \/ /\ misc_settings' =
                 SetPattern(misc_settings, Unwrap(new_config[c].album_art_pattern))
          /\ Goto(c, BlockAfter(new_config[c], "album_art_pattern"))
          /\ UNCHANGED << mount_points, users, ddns_config, lock, locals, result >>
       \/ Fail(c, "album_art_pattern")

AmmendDdns(c) ==
    /\ pc[c] = "ydns"
    /\ \/ /\ ddns_config' = SetDdns(ddns_config, Unwrap(new_config[c].ydns))
          /\ Goto(c, BlockAfter(new_config[c], "ydns"))
          /\ UNCHANGED << mount_points, users, misc_settings, lock, locals, result >>
       \/ Fail(c, "ydns")

\* Ok(()) at the end of ammend.
AmmendReturn(c) ==
    /\ pc[c] = "return"
    /\ Return(c, Ok(None))
    /\ UNCHANGED << store, op, new_config, pre, prev_ammend >>

\* ---------------------------------------------------------- specifications
Step(c) ==
    \/ ReadLock(c)
    \/ ReadMisc(c)
    \/ ReadMounts(c)
    \/ ReadUsers(c)
    \/ ReadDdns(c)
    \/ ResetLock(c)
    \/ ResetMounts(c)
    \/ ResetUsers(c)
    \/ AmmendLock(c)
    \/ AmmendDeleteMounts(c)
    \/ AmmendInsertMounts(c)
    \/ AmmendDeleteUsers(c)
    \/ AmmendInsertUser(c)
    \/ AmmendSleep(c)
    \/ AmmendPattern(c)
    \/ AmmendDdns(c)
    \/ AmmendReturn(c)

\* One caller at a time: every call returns before the next is made.
Next ==
    \/ CallRead(1, Tables)
    \/ CallAmmend(1, Documents, Tables)
    \/ CallOverwrite(1, Documents, Tables)
    \/ Step(1)
    \/ Done(1)

Init == InitFor({1})

Spec == Init /\ [][Next]_vars

\* Two threads sharing the connection.  Their documents: one that sets all
\* five fields and one that sets the two lists, with different rows.
DocA ==
    [ album_art_pattern |-> Some("file.png"),
      reindex_every_n_seconds |-> Some(7734),
      mount_dirs |-> Some(<< [source |-> "/home/music", name |-> "root"] >>),
      users |-> Some(<< [name |-> "Teddy", password |-> ""] >>),
      ydns |-> Some([host |-> "x.ydns.eu", username |-> "u", password |-> "p"]) ]

DocB ==
    [ album_art_pattern |-> None,
      reindex_every_n_seconds |-> None,
      mount_dirs |-> Some(<< [source |-> "/mnt/cd", name |-> "cd"] >>),
      users |-> Some(<< [name |-> "Kermit", password |-> "frog"] >>),
      ydns |-> None ]

ConcDocuments == {DocA, DocB}

NextConc ==
    \E c \in Callers :
        \/ CallRead(c, EmptyTables)
        \/ CallAmmend(c, ConcDocuments, EmptyTables)
        \/ CallOverwrite(c, ConcDocuments, EmptyTables)
        \/ Step(c)
        \/ Done(c)

InitConc == InitFor(Callers)

SpecConc == InitConc /\ [][NextConc]_vars

\* ------------------------------------------------------------ observations
Returned(c, f, status) ==
    /\ pc[c] = "returned"
    /\ op[c] = f
    /\ result[c].status = status

SleepOf(rows) == [i \in 1..Len(rows) |-> rows[i].index_sleep_duration_seconds]
PatternOf(rows) == [i \in 1..Len(rows) |-> rows[i].index_album_art_pattern]
NamesOf(rows) == [i \in 1..Len(rows) |-> rows[i].name]
UserRows(list) == [i \in 1..Len(list) |-> NewUser(list[i].name, list[i].password)]
Prefixes(q) == {SubSeq(q, 1, n) : n \in 0..Len(q)}

\* Collection f holds what document D specifies for it.
AtDoc(f, D) ==
    CASE f = "mount_dirs" -> mount_points = Unwrap(D.mount_dirs)
      [] f = "users" -> users = UserRows(Unwrap(D.users))
      [] f = "reindex_every_n_seconds" ->
            \A i \in 1..Len(misc_settings) :
                misc_settings[i].index_sleep_duration_seconds =
                    Unwrap(D.reindex_every_n_seconds)
      [] f = "album_art_pattern" ->
            \A i \in 1..Len(misc_settings) :
                misc_settings[i].index_album_art_pattern = Unwrap(D.album_art_pattern)
      [] f = "ydns" ->
            \A i \in 1..Len(ddns_config) : ddns_config[i] = Unwrap(D.ydns)

\* Collection f is as it was in the tables T.
AtPre(f, T) ==
    CASE f = "mount_dirs" -> mount_points = T.mount_points
      [] f = "users" -> users = T.users
      [] f = "reindex_every_n_seconds" -> SleepOf(misc_settings) = SleepOf(T.misc_settings)
      [] f = "album_art_pattern" -> PatternOf(misc_settings) = PatternOf(T.misc_settings)
      [] f = "ydns" -> ddns_config = T.ddns_config

FieldNames == { "mount_dirs", "users", "reindex_every_n_seconds",
                "album_art_pattern", "ydns" }

\* ------------------------------------------------------------------ claims

\* C1: after a successful ammend(D), every collection whose field is None in
\* D is as it was when the call was made (mount points, users, reindex
\* interval, album-art pattern, DDNS row).
C1_OmissionPreservesState ==
    \A c \in Active :
        Returned(c, "ammend", "ok") =>
            \A f \in FieldNames :
                Field(new_config[c], f) = None => AtPre(f, pre[c])

\* A successful ammend that omitted mount_dirs, found mount points in the
\* table and replaced the users.
C1_Witness ==
    \E c \in Active :
        /\ Returned(c, "ammend", "ok")
        /\ new_config[c].mount_dirs = None
        /\ pre[c].mount_points # << >>
        /\ IsSome(new_config[c].users)
        /\ users # pre[c].users

\* C2: after a successful overwrite(D) by a lone caller, the mount-point
\* table is exactly D.mount_dirs (empty when None) and the user table names
\* exactly D.users (empty when None); no earlier row survives.
C2_OverwriteIsExact ==
    \A c \in Active :
        Returned(c, "overwrite", "ok") =>
            LET D == new_config[c] IN
            /\ mount_points = IF IsSome(D.mount_dirs) THEN Unwrap(D.mount_dirs) ELSE << >>
            /\ NamesOf(users) = IF IsSome(D.users) THEN NamesOf(Unwrap(D.users)) ELSE << >>

\* A successful overwrite that omitted mount_dirs on a store that had mount
\* points.
C2_Witness ==
    \E c \in Active :
        /\ Returned(c, "overwrite", "ok")
        /\ new_config[c].mount_dirs = None
        /\ pre[c].mount_points # << >>
        /\ mount_points = << >>

\* D with every user's password replaced by the empty string.
Cleared(D) ==
    [D EXCEPT !.users =
        Some([i \in 1..Len(Unwrap(D.users)) |->
                 [name |-> Unwrap(D.users)[i].name, password |-> ""]])]

C4_PresentListReplaces ==
    \A c \in Active :
        Returned(c, "ammend", "ok") =>
            \A f \in {"mount_dirs", "users"} :
                IF IsSome(Field(new_config[c], f))
                THEN AtDoc(f, new_config[c])
                ELSE AtPre(f, pre[c])

\* A successful ammend with users = Some([]) on a store that had users.
C4_Witness ==
    \E c \in Active :
        /\ Returned(c, "ammend", "ok")
        /\ new_config[c].users = Some(<< >>)
        /\ pre[c].users # << >>
        /\ users = << >>

\* C5: after a successful overwrite(D) the reindex interval, the album-art
\* pattern and the DDNS row hold D's value where D has one and their value
\* from before the call where it has none.
C5_OverwriteKeepsSettings ==
    \A c \in Active :
        Returned(c, "overwrite", "ok") =>
            \A f \in {"reindex_every_n_seconds", "album_art_pattern", "ydns"} :
                IF IsSome(Field(new_config[c], f))
                THEN AtDoc(f, new_config[c])
                ELSE AtPre(f, pre[c])

\* A successful overwrite that omitted the reindex interval and the DDNS
\* record on a store where both had been changed from their defaults, and
\* that changed the pattern.
C5_Witness ==
    \E c \in Active :
        /\ Returned(c, "overwrite", "ok")
        /\ new_config[c].reindex_every_n_seconds = None
        /\ new_config[c].ydns = None
        /\ pre[c].misc_settings # << InitialMisc >>
        /\ SleepOf(pre[c].misc_settings) # SleepOf(<< InitialMisc >>)
        /\ pre[c].ddns_config # << InitialDdns >>
        /\ IsSome(new_config[c].album_art_pattern)
        /\ misc_settings # pre[c].misc_settings

\* C6: read returns either Ok with a Config whose five fields are all Some,
\* or an error and no Config at all.
C6_ReadAllOrNothing ==
    \A c \in Active :
        /\ Returned(c, "read", "ok") =>
              /\ IsSome(result[c].value)
              /\ IsFull(Unwrap(result[c].value))
        /\ Returned(c, "read", "err") => result[c].value = None

\* A read whose last query failed after the first three had filled their
\* fields.
C6_Witness ==
    \E c \in Active :
        /\ Returned(c, "read", "err")
        /\ result[c].at = "ddns_config"
        /\ mount_points # << >>

\* C7: every user of a Config returned by read has an empty password, and the
\* names are those of the user table, row by row.
C7_ReadHidesPasswords ==
    \A c \in Active :
        Returned(c, "read", "ok") =>
            LET out == Unwrap(Unwrap(result[c].value).users) IN
            /\ \A i \in 1..Len(out) : out[i].password = ""
            /\ NamesOf(out) = NamesOf(users)

\* A read of a user table holding the hash of a non-empty password.
C7_Witness ==
    \E c \in Active :
        /\ Returned(c, "read", "ok")
        /\ \E i \in 1..Len(users) : users[i].password_hash # Hash("")

\* The order the claim gives: mount points, users, reindex interval,
\* album-art pattern, DDNS.
ClaimedOrder == << "mount_dirs", "users", "reindex_every_n_seconds",
                   "album_art_pattern", "ydns" >>
Rank(f) == CHOOSE j \in 1..Len(ClaimedOrder) : ClaimedOrder[j] = f

\* C8: when ammend fails in the step of field N, the steps before N (in the
\* order mount points, users, reindex interval, pattern, DDNS) have taken
\* effect and stay, and no step after N is applied.
C8_OrderAndNoRollback ==
    \A c \in Active :
        Returned(c, "ammend", "err") =>
            \A f \in FieldNames :
                /\ Rank(f) < Rank(result[c].at) =>
                      IF IsSome(Field(new_config[c], f))
                      THEN AtDoc(f, new_config[c])
                      ELSE AtPre(f, pre[c])
                /\ Rank(f) > Rank(result[c].at) => AtPre(f, pre[c])

\* An ammend that replaced the mount points, then failed updating the reindex
\* interval, with a DDNS record still to write.
C8_Witness ==
    \E c \in Active :
        /\ Returned(c, "ammend", "err")
        /\ result[c].at = "reindex_every_n_seconds"
        /\ IsSome(new_config[c].mount_dirs)
        /\ mount_points # pre[c].mount_points
        /\ IsSome(new_config[c].ydns)
        /\ ddns_config # << Unwrap(new_config[c].ydns) >>

\* What a failed call may leave of the single-row settings: in every row,
\* each of the three values is the one from before the call or the
\* document's, and nothing else has changed.
SettingsBetween(c) ==
    LET D == new_config[c]
        T == pre[c]
        OneOf(now, before, o) == now = before \/ (IsSome(o) /\ now = Unwrap(o))
    IN
    /\ Len(misc_settings) = Len(T.misc_settings)
    /\ \A i \in 1..Len(misc_settings) :
          /\ misc_settings[i].auth_secret = T.misc_settings[i].auth_secret
          /\ OneOf(misc_settings[i].index_sleep_duration_seconds,
                   T.misc_settings[i].index_sleep_duration_seconds,
                   D.reindex_every_n_seconds)
          /\ OneOf(misc_settings[i].index_album_art_pattern,
                   T.misc_settings[i].index_album_art_pattern,
                   D.album_art_pattern)
    /\ Len(ddns_config) = Len(T.ddns_config)
    /\ \A i \in 1..Len(ddns_config) :
          OneOf(ddns_config[i], T.ddns_config[i], D.ydns)

FailedWrite(c) ==
    /\ pc[c] = "returned"
    /\ op[c] \in {"ammend", "overwrite"}
    /\ result[c].status = "err"

\* C9 as stated: after a failed ammend/overwrite each collection is either as
\* it was before the step that touched it or as the document specifies; a
\* list table is never emptied but not refilled, nor left with only some of
\* the document's rows.  (A table that overwrite's reset emptied counts as
\* the state before ammend's step.)
C9_StepsAllOrNothing ==
    \A c \in Active :
        FailedWrite(c) =>
            LET D == new_config[c]
                emptied == IF op[c] = "overwrite" THEN {<< >>} ELSE {}
            IN
            /\ mount_points \in
                  {pre[c].mount_points} \cup emptied \cup
                  (IF IsSome(D.mount_dirs) THEN {Unwrap(D.mount_dirs)} ELSE {})
            /\ users \in
                  {pre[c].users} \cup emptied \cup
                  (IF IsSome(D.users) THEN {UserRows(Unwrap(D.users))} ELSE {})
            /\ SettingsBetween(c)

\* C9 as amended: each statement is all-or-nothing, but the replacement of a
\* list is several statements, so after a failed call a list table is as it
\* was before the call, or empty, or holds the first rows of the document's
\* list (possibly all of them); each single-row setting holds its value from
\* before the call or the document's.
C9_FailedCallLeavesPrefix ==
    \A c \in Active :
        FailedWrite(c) =>
            LET D == new_config[c]
                emptied == IF op[c] = "overwrite" THEN {<< >>} ELSE {}
            IN
            /\ mount_points \in
                  {pre[c].mount_points} \cup emptied \cup
                  (IF IsSome(D.mount_dirs) THEN Prefixes(Unwrap(D.mount_dirs)) ELSE {})
            /\ users \in
                  {pre[c].users} \cup emptied \cup
                  (IF IsSome(D.users) THEN Prefixes(UserRows(Unwrap(D.users))) ELSE {})
            /\ SettingsBetween(c)

\* An ammend that deleted the users, then failed to insert the first one of a
\* non-empty list: the table is emptied and not refilled.
C9_Witness ==
    \E c \in Active :
        /\ Returned(c, "ammend", "err")
        /\ result[c].at = "users"
        /\ pre[c].users # << >>
        /\ Unwrap(new_config[c].users) # << >>
        /\ users = << >>

\* ------------------------------------------------------ concurrent callers
InAmmend(c) ==
    pc[c] \in { "mount_dirs", "insert_mounts", "users", "insert_user",
                "reindex_every_n_seconds", "album_art_pattern", "ydns", "return" }

ListsOf(D) ==
    /\ mount_points = Unwrap(D.mount_dirs)
    /\ users = UserRows(Unwrap(D.users))

\* C10 as stated, its premise: ammend takes the lock anew for each step, so
\* between its mount-point step and its user step it does not hold the lock.
C10_LockPerStep ==
    \A c \in Active : pc[c] = "users" => lock # c

\* C10 as amended: ammend takes the lock once and holds it until it returns,
\* so two concurrent ammend calls do not interleave: when two callers'
\* ammend calls, both setting mount_dirs and users, have both returned Ok,
\* the mount-point table and the user table come from the same document.
C10_AmmendsDoNotInterleave ==
    /\ \A c \in Active : InAmmend(c) => lock = c
    /\ \A a, b \in Active :
          (a # b /\ Returned(a, "ammend", "ok") /\ Returned(b, "ammend", "ok")) =>
              ListsOf(new_config[a]) \/ ListsOf(new_config[b])

\* Caller a has replaced the mount points and not yet the users, while
\* caller b, with another document, waits for the lock in its own ammend.
C10_Witness ==
    \E a, b \in Active :
        /\ pc[a] = "users"
        /\ op[a] = "ammend"
        /\ mount_points = Unwrap(new_config[a].mount_dirs)
        /\ pc[b] = "ammend_lock"
        /\ op[b] = "ammend"
        /\ new_config[b] # new_config[a]
        /\ users # << >>
        /\ users # UserRows(Unwrap(new_config[a].users))

\* The caller is at a statement executed on the connection (a query, a
\* mutation, or the return that follows them inside the guard's scope).
OnConnection(c) ==
    pc[c] \in { "read_misc", "read_mounts", "read_users", "read_ddns",
                "reset_mounts", "reset_users",
                "mount_dirs", "insert_mounts", "users", "insert_user",
                "reindex_every_n_seconds", "album_art_pattern", "ydns", "return" }

\* C11: the connection has one mutex: a caller about to execute a query or a
\* mutation of read/reset/ammend holds it (so no two callers are at such a
\* statement at once), and a caller that has not locked yet, or whose call
\* has returned, with Ok or with an error, does not.
C11_LockDiscipline ==
    /\ \A c \in Active : OnConnection(c) <=> lock = c
    /\ \A a, b \in Active : (OnConnection(a) /\ OnConnection(b)) => a = b

\* A read has returned an error while the other caller holds the mutex in
\* the middle of its ammend.
C11_Witness ==
    \E a, b \in Active :
        /\ Returned(a, "read", "err")
        /\ lock = b
        /\ pc[b] = "insert_user"

\* The single-row settings and the DDNS row are as in the tables T.
SettingsAsIn(T) ==
    /\ misc_settings = T.misc_settings
    /\ ddns_config = T.ddns_config

\* C15: overwrite resets before any step of ammend, whatever the document
\* holds: when its ammend part is about to start both lists are empty and
\* the settings and the DDNS row are untouched.  When the first delete fails
\* nothing at all has changed; when the second fails the mount points are
\* gone, the users, the settings and the DDNS row are as before; in both
\* cases the error is returned without a step of ammend.
C15_ResetBeforeAmmend ==
    \A c \in Active :
        /\ (op[c] = "overwrite" /\ pc[c] = "ammend_lock") =>
              /\ mount_points = << >>
              /\ users = << >>
              /\ SettingsAsIn(pre[c])
        /\ (Returned(c, "overwrite", "err") /\ result[c].at = "reset_mounts") =>
              /\ mount_points = pre[c].mount_points
              /\ users = pre[c].users
              /\ SettingsAsIn(pre[c])
        /\ (Returned(c, "overwrite", "err") /\ result[c].at = "reset_users") =>
              /\ mount_points = << >>
              /\ users = pre[c].users
              /\ SettingsAsIn(pre[c])

\* The user deletion of an overwrite with a full document failed on a store
\* that had mount points and users.
C15_Witness ==
    \E c \in Active :
        /\ Returned(c, "overwrite", "err")
        /\ result[c].at = "reset_users"
        /\ IsFull(new_config[c])
        /\ pre[c].mount_points # << >>
        /\ pre[c].users # << >>

\* C16: read has no effect on the store: at every point of a read, and when
\* it has returned, with a document or with the error of any of its four
\* queries, the four tables are what they were when the call was made.
C16_ReadIsPure ==
    \A c \in Active : op[c] = "read" => Tables = pre[c]

\* A read of a store with mount points and users has failed at its third
\* query, after the first two had loaded their rows.
C16_Witness ==
    \E c \in Active :
        /\ Returned(c, "read", "err")
        /\ result[c].at = "users"
        /\ pre[c].mount_points # << >>
        /\ pre[c].users # << >>

\* The caller is between two of read's four queries.
MidRead(c) == pc[c] \in { "read_mounts", "read_users", "read_ddns" }

\* C17: read holds the lock across its four queries while ammend holds it
\* from its first mutation to its last, so a read never runs while another
\* caller's ammend is between its steps, and everything a read has loaded so
\* far (settings, then mount points, then user names) still equals what the
\* store holds: the document it returns is one whole state of the store,
\* from before or from after a concurrent ammend, never a mixture.
C17_ReadSeesWholeState ==
    \A c \in Active :
        /\ MidRead(c) =>
              /\ \A d \in Active \ {c} : ~InAmmend(d)
              /\ config[c].reindex_every_n_seconds = Some(SleepOf(misc_settings)[1])
              /\ config[c].album_art_pattern = Some(PatternOf(misc_settings)[1])
        /\ pc[c] \in { "read_users", "read_ddns" } =>
              config[c].mount_dirs = Some(mount_points)
        /\ pc[c] = "read_ddns" =>
              /\ IsSome(config[c].users)
              /\ NamesOf(Unwrap(config[c].users)) = NamesOf(users)

\* A read has loaded settings, mount points and users of a store that an
\* earlier ammend filled, while the other caller's ammend, with a document
\* that replaces the mount points, waits for the lock.
C17_Witness ==
    \E a, b \in Active :
        /\ pc[a] = "read_ddns"
        /\ mount_points # << >>
        /\ users # << >>
        /\ pc[b] = "ammend_lock"
        /\ op[b] = "ammend"
        /\ IsSome(new_config[b].mount_dirs)
        /\ Unwrap(new_config[b].mount_dirs) # mount_points

\* The store is what document D, with both lists present, makes of the
\* tables T: the lists are D's, each single-row setting is D's where D has
\* it and T's where it has not.  The operation does not enter into it.
EndState(T, D) ==
    /\ mount_points = Unwrap(D.mount_dirs)
    /\ NamesOf(users) = NamesOf(Unwrap(D.users))
    /\ Len(misc_settings) = Len(T.misc_settings)
    /\ \A f \in { "reindex_every_n_seconds", "album_art_pattern", "ydns" } :
          IF IsSome(Field(D, f)) THEN AtDoc(f, D) ELSE AtPre(f, T)

\* C19: for a document D with mount_dirs and users both present, a
\* successful overwrite(D) and a successful ammend(D) end in the same store
\* state: after either, from any prior state, the store is the one state
\* determined by the prior state and D alone.
C19_OverwriteEqualsAmmend ==
    \A c \in Active :
        ( /\ pc[c] = "returned"
          /\ op[c] \in { "ammend", "overwrite" }
          /\ result[c].status = "ok"
          /\ IsSome(new_config[c].mount_dirs)
          /\ IsSome(new_config[c].users) ) =>
            EndState(pre[c], new_config[c])

\* An overwrite with both lists and no DDNS value has succeeded on a store
\* that had users and a DDNS row set by an earlier call.
C19_Witness ==
    \E c \in Active :
        /\ Returned(c, "overwrite", "ok")
        /\ IsSome(new_config[c].mount_dirs)
        /\ IsSome(new_config[c].users)
        /\ ~IsSome(new_config[c].ydns)
        /\ pre[c].users # << >>
        /\ pre[c].ddns_config # << InitialDdns >>

\* C20: no sequence of read, ammend and overwrite calls, successful or
\* failed, changes auth_secret, or adds or deletes the row of misc_settings
\* or the row of ddns_config: each table keeps its one row, and the secret
\* is the initial one.
C20_AuthSecretInvariant ==
    /\ Len(misc_settings) = Len(<< InitialMisc >>)
    /\ \A i \in 1..Len(misc_settings) :
          misc_settings[i].auth_secret = InitialMisc.auth_secret
    /\ Len(ddns_config) = Len(<< InitialDdns >>)

\* An overwrite that set interval, pattern and DDNS row has returned Ok,
\* after an earlier call had already changed the interval.
C20_Witness ==
    \E c \in Active :
        /\ Returned(c, "overwrite", "ok")
        /\ IsFull(new_config[c])
        /\ SleepOf(pre[c].misc_settings) # << InitialMisc.index_sleep_duration_seconds >>
        /\ ddns_config # << InitialDdns >>

\* ----------------------------------------------------------- fair callers
\* Two callers under a fair scheduler, on a store whose calls return: a
\* caller that can go on does go on.  std::sync::Mutex makes no promise
\* about which waiter gets a freed mutex, so nothing more is assumed of
\* lock().
SpecFair ==
    /\ InitConc
    /\ [][NextConc]_vars
    /\ \A c \in Callers : WF_vars(Step(c))

\* The three places where a caller blocks until the mutex is free.
LockStep(c) == ReadLock(c) \/ ResetLock(c) \/ AmmendLock(c)

\* The caller is about to lock the mutex.
AtLock(c) == pc[c] \in { "read_lock", "reset_lock", "ammend_lock" }

\* C18 as stated: overwrite never goes to lock the mutex while holding it,
\* the callers are never all blocked, and under fair scheduling every
\* invocation of read, ammend or overwrite eventually returns.
C18_EveryCallReturns ==
    /\ [](\A c \in Callers : AtLock(c) => lock # c)
    /\ [](lock = 0 \/ \E c \in Callers : lock = c /\ ~AtLock(c) /\ pc[c] # "idle")
    /\ \A c \in Callers : (pc[c] # "idle") ~> (pc[c] = "returned")

\* C18 as amended: overwrite never goes to lock the mutex while holding it
\* (reset's guard is dropped before ammend locks); whoever holds the mutex
\* is at a statement it can execute and lets go of it, so the callers are
\* never all blocked and while a call is in progress some call returns; every
\* invocation returns provided a waiting caller gets the mutex when it is
\* free again and again.
C18_NoDeadlock ==
    /\ [](\A c \in Callers : AtLock(c) => lock # c)
    /\ [](lock = 0 \/ \E c \in Callers : lock = c /\ ~AtLock(c) /\ pc[c] # "idle")
    /\ \A c \in Callers : (lock = c) ~> (lock # c)
    /\ (\E c \in Callers : pc[c] # "idle") ~> (\E c \in Callers : pc[c] = "returned")
    /\ (\A c \in Callers : SF_vars(LockStep(c))) =>
          (\A c \in Callers : AtLock(c) ~> (pc[c] = "returned"))

\* An overwrite has finished its reset and waits to lock for its ammend,
\* while the other caller holds the mutex in the middle of a read.
C18_Witness ==
    \E a, b \in Callers :
        /\ op[a] = "overwrite"
        /\ pc[a] = "ammend_lock"
        /\ lock = b
        /\ pc[b] = "read_users"

\* ------------------------------------------------------------ path cleaning
\* A path string is the sequence of its characters.  The alphabet has the
\* two separator spellings, a name character and the dot.
PathChars == { "/", "\\", "a", "." }
PathStrings == SeqUpTo(PathChars, MaxPathLen)

\* path::MAIN_SEPARATOR of the non-Windows build.
MAIN_SEPARATOR == "/"

\* separator_regex.replace_all(path_string, correct_separator)
ReplaceAll(path_string) ==
    [i \in 1..Len(path_string) |->
        IF path_string[i] \in { "\\", "/" } THEN MAIN_SEPARATOR ELSE path_string[i]]

\* The pieces of s between separators, empty ones included.
RECURSIVE Split(_)
Split(s) ==
    IF s = << >> THEN << << >> >>
    ELSE LET rest == Split(Tail(s))
         IN  IF Head(s) = MAIN_SEPARATOR
             THEN << << >> >> \o rest
             ELSE << << Head(s) >> \o rest[1] >> \o Tail(rest)

\* Variant: the iteration hands out the empty pieces too.
Components_KeepsEmpty(s) ==
    LET segs == Split(s)
        has_root == s # << >> /\ s[1] = MAIN_SEPARATOR
        lead == IF has_root THEN << << MAIN_SEPARATOR >> >>
                ELSE IF segs[1] = << "." >> THEN << << "." >> >>
                ELSE << >>
    IN  lead \o SelectSeq(segs, LAMBDA x : x # << "." >>)

\* Path::new(s).iter(): the root if s starts with a separator, then the
\* names; empty pieces (repeated or trailing separators) and "." are
\* skipped, except a "." that starts a relative path.
Components(s) ==
    LET segs == Split(s)
        has_root == s # << >> /\ s[1] = MAIN_SEPARATOR
        lead == IF has_root THEN << << MAIN_SEPARATOR >> >>
                ELSE IF segs[1] = << "." >> THEN << << "." >> >>
                ELSE << >>
    IN  lead \o SelectSeq(segs, LAMBDA x : x # << >> /\ x # << "." >>)

\* Variant: push puts a separator before every component.
Push_AlwaysSeparator(buf, comp) ==
    IF comp # << >> /\ comp[1] = MAIN_SEPARATOR THEN comp
    ELSE buf \o << MAIN_SEPARATOR >> \o comp

\* PathBuf::push: an absolute component replaces the buffer; otherwise the
\* component is appended, after a separator unless the buffer is empty or
\* ends with one.
Push(buf, comp) ==
    IF comp # << >> /\ comp[1] = MAIN_SEPARATOR THEN comp
    ELSE IF buf # << >> /\ buf[Len(buf)] # MAIN_SEPARATOR
         THEN buf \o << MAIN_SEPARATOR >> \o comp
         ELSE buf \o comp

\* .collect() into a PathBuf: push the components one after the other.
RECURSIVE Collect(_, _)
Collect(buf, comps) ==
    IF comps = << >> THEN buf
    ELSE Collect(Push(buf, Head(comps)), Tail(comps))

clean_path_string(path_string) ==
    Collect(<< >>, Components(ReplaceAll(path_string)))

\* PathBuf::to_str: None when the path is not valid Unicode, which a path
\* made of pieces of a &str never is.
ToStr(p) == Some(p)

\* ---------------------------------------------------------------- parsing
\* What the content handed to a parser deserializes to when it is well
\* formed: documents with up to two mount points.
ParseMounts == { [source |-> p, name |-> "root"] : p \in PathStrings }
ParseLists ==
    { << >> } \cup { << m >> : m \in ParseMounts }
              \cup { << m, n >> : m \in ParseMounts, n \in ParseMounts }
ParseDocuments == { [EmptyConfig EXCEPT !.mount_dirs = o] : o \in Opt(ParseLists) }

CallParseJson(c) ==
    /\ pc[c] = "idle"
    /\ \E D \in ParseDocuments : Call(c, "parse_json", D, "from_str", EmptyTables)

CallParseTomlFile(c) ==
    /\ pc[c] = "idle"
    /\ \E D \in ParseDocuments : Call(c, "parse_toml_file", D, "open", EmptyTables)

\* A parser returns; no lock is involved.
ParseReturn(c, r) ==
    /\ result' = [result EXCEPT ![c] = r]
    /\ Goto(c, "returned")
    /\ config' = [config EXCEPT ![c] = EmptyConfig]
    /\ idx' = [idx EXCEPT ![c] = 0]
    /\ UNCHANGED << store, lock, op, new_config, pre, prev_ammend >>

\* fs::File::open(path)?
TomlOpen(c) ==
    /\ pc[c] = "open"
    /\ \/ /\ Goto(c, "read_to_string")
          /\ UNCHANGED << store, lock, locals, result >>
       \/ ParseReturn(c, Err("open"))

\* config_file.read_to_string(..)?
TomlRead(c) ==
    /\ pc[c] = "read_to_string"
    /\ \/ /\ Goto(c, "from_str")
          /\ UNCHANGED << store, lock, locals, result >>
       \/ ParseReturn(c, Err("read_to_string"))

\* let mut config = from_str::<Config>(content)?  The content is well formed
\* and config is the document, or it is not and the error is returned.
FromStr(c) ==
    /\ pc[c] = "from_str"
    /\ \/ /\ config' = [config EXCEPT ![c] = new_config[c]]
          /\ idx' = [idx EXCEPT ![c] = 1]
          /\ Goto(c, "clean_paths")
          /\ UNCHANGED << store, lock, op, new_config, result, pre, prev_ammend >>
       \/ ParseReturn(c, Err("from_str"))

\* Variant: the loop passes over the mount points without storing the
\* cleaned path.
CleanPaths_Raw(c) ==
    /\ pc[c] = "clean_paths"
    /\ LET dirs == config[c].mount_dirs
       IN  IF dirs = None \/ idx[c] > Len(Unwrap(dirs))
           THEN ParseReturn(c, Ok(Some(config[c])))
           ELSE /\ idx' = [idx EXCEPT ![c] = idx[c] + 1]
                /\ Goto(c, "clean_paths")
                /\ UNCHANGED << store, lock, config, op, new_config, result,
                                pre, prev_ammend >>

\* config.clean_paths()?; Ok(config).  One turn of the loop over mount_dirs
\* per step: the source is replaced by its cleaned form, or the call bails
\* out when the cleaned path has no string form.  After the last mount
\* point, or at once when mount_dirs is None, the document is returned.
CleanPaths(c) ==
    /\ pc[c] = "clean_paths"
    /\ LET dirs == config[c].mount_dirs
       IN  IF dirs = None \/ idx[c] > Len(Unwrap(dirs))
           THEN ParseReturn(c, Ok(Some(config[c])))
           ELSE LET p == ToStr(clean_path_string(Unwrap(dirs)[idx[c]].source))
                IN  IF IsSome(p)
                    THEN /\ config' =
                               [config EXCEPT ![c].mount_dirs =
                                   Some([Unwrap(dirs) EXCEPT
                                            ![idx[c]].source = Unwrap(p)])]
                         /\ idx' = [idx EXCEPT ![c] = idx[c] + 1]
                         /\ Goto(c, "clean_paths")
                         /\ UNCHANGED << store, lock, op, new_config, result,
                                         pre, prev_ammend >>
                    ELSE ParseReturn(c, Err("Bad mount directory path"))

\* One caller parsing contents, as JSON text or from a TOML file.
NextParse ==
    \/ CallParseJson(1)
    \/ CallParseTomlFile(1)
    \/ TomlOpen(1)
    \/ TomlRead(1)
    \/ FromStr(1)
    \/ CleanPaths(1)
    \/ Done(1)

SpecParse == Init /\ [][NextParse]_vars

\* ----------------------------------------------------- claims on parsing
ParseOps == { "parse_json", "parse_toml_file" }

\* The call of caller c was a parse and has returned with the given status.
Parsed(c, status) ==
    /\ pc[c] = "returned"
    /\ op[c] \in ParseOps
    /\ result[c].status = status

\* Document out is document in with every mount source cleaned and nothing
\* else changed.
CleanedFrom(in, out) ==
    /\ IsSome(out.mount_dirs) <=> IsSome(in.mount_dirs)
    /\ IsSome(in.mount_dirs) =>
          /\ Len(Unwrap(out.mount_dirs)) = Len(Unwrap(in.mount_dirs))
          /\ \A i \in 1..Len(Unwrap(in.mount_dirs)) :
                /\ Unwrap(out.mount_dirs)[i].name = Unwrap(in.mount_dirs)[i].name
                /\ Unwrap(out.mount_dirs)[i].source =
                      clean_path_string(Unwrap(in.mount_dirs)[i].source)
    /\ [out EXCEPT !.mount_dirs = None] = [in EXCEPT !.mount_dirs = None]

\* C12: parsing is all-or-nothing with respect to path cleaning: a document
\* returned by parse_json or parse_toml_file has every mount source cleaned,
\* and a parse that returns an error returns no document, not even a partly
\* cleaned one.
C12_ParseAllOrNothing ==
    \A c \in Active :
        /\ Parsed(c, "ok") =>
              /\ IsSome(result[c].value)
              /\ CleanedFrom(new_config[c], Unwrap(result[c].value))
        /\ Parsed(c, "err") => result[c].value = None

\* parse_toml_file has returned a document with two mount points, both of
\* which came with a source that cleaning changed.
C12_Witness ==
    \E c \in Active :
        /\ Parsed(c, "ok")
        /\ op[c] = "parse_toml_file"
        /\ IsSome(new_config[c].mount_dirs)
        /\ Len(Unwrap(new_config[c].mount_dirs)) = 2
        /\ \A i \in DOMAIN Unwrap(new_config[c].mount_dirs) :
              Unwrap(new_config[c].mount_dirs)[i].source #
                  Unwrap(Unwrap(result[c].value).mount_dirs)[i].source

\* Reading a path string by positions: separators, where names start and
\* end, and the names in order.
IsSep(ch) == ch \in { "/", "\\" }
StartsWithSep(p) == p # << >> /\ IsSep(p[1])
NameStarts(p) ==
    { i \in 1..Len(p) : ~IsSep(p[i]) /\ (i = 1 \/ IsSep(p[i - 1])) }
NameEnd(p, i) ==
    CHOOSE j \in i..Len(p) :
        /\ \A k \in i..j : ~IsSep(p[k])
        /\ j = Len(p) \/ IsSep(p[j + 1])
NthStart(p, n) ==
    CHOOSE i \in NameStarts(p) : Cardinality({ j \in NameStarts(p) : j < i }) = n - 1
SegmentsOf(p) ==
    [n \in 1..Cardinality(NameStarts(p)) |->
        SubSeq(p, NthStart(p, n), NameEnd(p, NthStart(p, n)))]

\* out is the names of p joined by single native separators, after the root
\* when p starts with a separator, with no trailing separator.
JoinedFrom(p, out) ==
    /\ \A i \in 1..Len(out) : out[i] # "\\"
    /\ \A i \in 1..(Len(out) - 1) : ~(IsSep(out[i]) /\ IsSep(out[i + 1]))
    /\ Len(out) > 1 => ~IsSep(out[Len(out)])
    /\ StartsWithSep(out) <=> StartsWithSep(p)
    /\ SegmentsOf(out) = SegmentsOf(p)

\* No name of p is "." except one that starts a relative path.
NoInnerDot(p) ==
    \A n \in 1..Len(SegmentsOf(p)) :
        SegmentsOf(p)[n] = << "." >> => (n = 1 /\ ~StartsWithSep(p))

\* The sources of the mount points of document D.
SourcesOf(D) ==
    IF IsSome(D.mount_dirs)
    THEN [i \in 1..Len(Unwrap(D.mount_dirs)) |-> Unwrap(D.mount_dirs)[i].source]
    ELSE << >>

\* A path string in the platform's separator convention: no backslash.
IsNative(p) == \A i \in 1..Len(p) : p[i] # "\\"

\* C13 as stated: cleaning is idempotent, and cleaning a path that is
\* already native (written with the platform's separator) returns it
\* unchanged.
C13_NativeUnchanged ==
    \A c \in Active :
        Parsed(c, "ok") =>
            LET raw == SourcesOf(new_config[c])
                out == SourcesOf(Unwrap(result[c].value))
            IN  \A i \in 1..Len(raw) :
                    /\ clean_path_string(out[i]) = out[i]
                    /\ IsNative(raw[i]) => out[i] = raw[i]

\* C13 as amended: cleaning is idempotent, and cleaning returns unchanged a
\* path that is already in cleaned form: native separators, single, none
\* trailing, and no "." name other than a leading one.
C13_Idempotent ==
    \A c \in Active :
        Parsed(c, "ok") =>
            LET raw == SourcesOf(new_config[c])
                out == SourcesOf(Unwrap(result[c].value))
            IN  \A i \in 1..Len(raw) :
                    /\ clean_path_string(out[i]) = out[i]
                    /\ (JoinedFrom(raw[i], raw[i]) /\ NoInnerDot(raw[i])) =>
                          out[i] = raw[i]

\* A document has been returned whose first source was changed by cleaning
\* and whose second, a rooted path already in cleaned form, was not.
C13_Witness ==
    \E c \in Active :
        /\ Parsed(c, "ok")
        /\ Len(SourcesOf(new_config[c])) = 2
        /\ SourcesOf(Unwrap(result[c].value))[1] # SourcesOf(new_config[c])[1]
        /\ SourcesOf(new_config[c])[2] = << "/", "a" >>
        /\ SourcesOf(Unwrap(result[c].value))[2] = << "/", "a" >>

\* p and q have the same names in the same order and both or neither start
\* with a separator: they differ at most in how separators are spelled,
\* repeated or trailed.
SameUpToSeparators(p, q) ==
    /\ StartsWithSep(p) <=> StartsWithSep(q)
    /\ SegmentsOf(p) = SegmentsOf(q)

====
